---------------------------- MODULE Spec2Model ----------------------------
(***************************************************************************)
(* ChargeSpot: the OpenChargeMap client (api_client.py), the dialog        *)
(* (charge_spot_dialog.py) and the radius map tool (charge_spot.py).       *)
(*                                                                         *)
(* JSON values are records tagged by t: "absent" (the key is not in the    *)
(* dict), "null" (None), "str", "num", "obj" (a dict), "list".  Strings    *)
(* are in field s, numbers in field n.  Pass-through fields that no        *)
(* operation reads again (url, email, comments, cost, dates,               *)
(* verification_status, current_type, connection status) are left out.    *)
(***************************************************************************)
EXTENDS Integers, Sequences, FiniteSets, TLC

\* ------------------------------------------------------------- bounds
\* longest response array of the client specification
MaxRawLen == 2
\* most searches started in one run of the dialog specification
MaxSearches == 2

\* ------------------------------------------------------------- JSON
JAbsent == [t |-> "absent", s |-> "", n |-> 0]
JNull == [t |-> "null", s |-> "", n |-> 0]
JStr(x) == [t |-> "str", s |-> x, n |-> 0]
JNum(x) == [t |-> "num", s |-> "", n |-> x]

\* a dict with the single key Title (OperatorInfo, StatusType, Country, ...)
TitleObj(title) == [t |-> "obj", Title |-> title]
AbsentObj == [t |-> "absent", Title |-> JAbsent]
NullObj == [t |-> "null", Title |-> JAbsent]
EmptyDict == [t |-> "obj", Title |-> JAbsent]

IsDict(x) == x.t = "obj"
HasKey(d, k) == d[k].t # "absent"
\* Python truthiness of a value
Truthy(x) ==
    \/ x.t = "str" /\ x.s # ""
    \/ x.t = "num" /\ x.n # 0
    \/ x.t = "obj"

\* dict.get(k, default): the stored value, None included, when the key is there
DictGet(d, k, default) == IF HasKey(d, k) THEN d[k] ELSE default

RECURSIVE SafeGetNested(_, _, _)
SafeGetNested(data, keys, default) ==
    IF keys = <<>>
        THEN IF data.t = "null" THEN default ELSE data
        ELSE IF IsDict(data) /\ HasKey(data, Head(keys))
                THEN SafeGetNested(data[Head(keys)], Tail(keys), default)
                ELSE default

\* address_info of station.get('AddressInfo', {}) when the key is absent
EmptyAddressInfo ==
    [t |-> "obj", Title |-> JAbsent, Latitude |-> JAbsent, Longitude |-> JAbsent,
     Distance |-> JAbsent, AddressLine1 |-> JAbsent, Town |-> JAbsent,
     StateOrProvince |-> JAbsent, Postcode |-> JAbsent, Country |-> AbsentObj,
     ContactTelephone1 |-> JAbsent]

\* station.get('AddressInfo', {})
AddressInfoOf(station) ==
    IF HasKey(station, "AddressInfo") THEN station.AddressInfo ELSE EmptyAddressInfo

\* address_info.get('Country', {})
CountryOf(address_info) ==
    IF HasKey(address_info, "Country") THEN address_info.Country ELSE EmptyDict

\* _build_address raises AttributeError: .get on a value that is no dict
BuildAddressRaises(address_info) ==
    \/ ~IsDict(address_info)
    \/ ~IsDict(CountryOf(address_info))

Part(address_info, k) ==
    IF Truthy(DictGet(address_info, k, JNull)) THEN <<address_info[k].s>> ELSE <<>>

\* the parts that ', '.join puts together, or the default
BuildAddress(address_info) ==
    LET parts == Part(address_info, "AddressLine1") \o Part(address_info, "Town")
                 \o Part(address_info, "StateOrProvince")
                 \o Part(address_info, "Postcode")
                 \o (IF Truthy(DictGet(CountryOf(address_info), "Title", JNull))
                        THEN <<address_info.Country.Title.s>> ELSE <<>>)
    IN IF parts # <<>> THEN parts ELSE <<"Unknown Address">>

\* station.get('Connections', [])
ConnectionsOf(station) ==
    IF HasKey(station, "Connections") THEN station.Connections
    ELSE [t |-> "list", items |-> <<>>]

\* for conn in connections / conn.get: TypeError or AttributeError
ProcessConnectionsRaises(connections) ==
    \/ connections.t # "list"
    \/ \E i \in 1..Len(connections.items) : ~IsDict(connections.items[i])

ConnectionData(conn) ==
    [id |-> DictGet(conn, "ID", JNull),
     type |-> SafeGetNested(conn, <<"ConnectionType", "Title">>, JStr("Unknown")),
     level |-> SafeGetNested(conn, <<"Level", "Title">>, JStr("Unknown")),
     power_kw |-> DictGet(conn, "PowerKW", JNull),
     quantity |-> DictGet(conn, "Quantity", JNum(1))]

ProcessConnections(connections) ==
    [i \in 1..Len(connections.items) |-> ConnectionData(connections.items[i])]

\* list(set): the order is arbitrary, the value is a set of strings
GetConnectionTypes(connections) ==
    {SafeGetNested(connections.items[i], <<"ConnectionType", "Title">>, JNull).s :
        i \in {j \in 1..Len(connections.items) :
                Truthy(SafeGetNested(connections.items[j],
                                     <<"ConnectionType", "Title">>, JNull))}}

\* the level fields of the connections records, 'Unknown' included
GetPowerLevelsWithDefault(connections) ==
    {SafeGetNested(connections.items[i], <<"Level", "Title">>, JStr("Unknown")).s :
        i \in 1..Len(connections.items)}

GetPowerLevels(connections) ==
    {SafeGetNested(connections.items[i], <<"Level", "Title">>, JNull).s :
        i \in {j \in 1..Len(connections.items) :
                Truthy(SafeGetNested(connections.items[j], <<"Level", "Title">>, JNull))}}

\* the try block of the loop raises for this element
ExtractionRaises(station) ==
    \/ ~IsDict(station)
    \/ BuildAddressRaises(AddressInfoOf(station))
    \/ ProcessConnectionsRaises(ConnectionsOf(station))

\* the except block's station.get('ID', 'unknown') raises for this element
LogHandlerRaises(station) == ~IsDict(station)

\* station_data of element i of the array; src is the element's position,
\* which stands for the identity of the dict object
StationData(station, i) ==
    [src |-> i,
     id |-> DictGet(station, "ID", JNull),
     name |-> SafeGetNested(station, <<"AddressInfo", "Title">>, JStr("Unknown Station")),
     address |-> BuildAddress(AddressInfoOf(station)),
     latitude |-> SafeGetNested(station, <<"AddressInfo", "Latitude">>, JNull),
     longitude |-> SafeGetNested(station, <<"AddressInfo", "Longitude">>, JNull),
     distance |-> DictGet(AddressInfoOf(station), "Distance", JNull),
     access_type |-> SafeGetNested(station, <<"UsageType", "Title">>, JStr("Unknown")),
     operator |-> SafeGetNested(station, <<"OperatorInfo", "Title">>, JStr("Unknown")),
     status |-> SafeGetNested(station, <<"StatusType", "Title">>, JStr("Unknown")),
     num_points |-> DictGet(station, "NumberOfPoints", JNum(0)),
     phone |-> SafeGetNested(station, <<"AddressInfo", "ContactTelephone1">>, JNull),
     connections |-> ProcessConnections(ConnectionsOf(station)),
     connection_types |-> GetConnectionTypes(ConnectionsOf(station)),
     power_levels |-> GetPowerLevels(ConnectionsOf(station))]

\* only stations with valid coordinates are added
HasCoordinatesLatOnly(station_data) == station_data.latitude.t # "null"

HasCoordinates(station_data) ==
    station_data.latitude.t # "null" /\ station_data.longitude.t # "null"

RECURSIVE ProcessFrom(_, _, _)
ProcessFrom(data, i, processed_stations) ==
    IF i > Len(data)
        THEN [raised |-> FALSE, stations |-> processed_stations]
        ELSE IF ExtractionRaises(data[i])
                THEN IF LogHandlerRaises(data[i])
                        THEN [raised |-> TRUE, stations |-> <<>>]
                        ELSE ProcessFrom(data, i + 1, processed_stations)
                ELSE IF HasCoordinates(StationData(data[i], i))
                        THEN ProcessFrom(data, i + 1,
                                 Append(processed_stations, StationData(data[i], i)))
                        ELSE ProcessFrom(data, i + 1, processed_stations)

\* _process_charging_stations: the list returned, or raised = TRUE when the
\* AttributeError of the except block leaves the function
ProcessChargingStations(data) == ProcessFrom(data, 1, <<>>)


\* ------------------------------------------------------------- raw items
Conn(type, level) ==
    [t |-> "obj", ID |-> JNum(1), ConnectionType |-> type, Level |-> level,
     PowerKW |-> JNum(22), Quantity |-> JAbsent]
NullConn == [Conn(AbsentObj, AbsentObj) EXCEPT !.t = "null"]
ConnList(items) == [t |-> "list", items |-> items]
AbsentList == [t |-> "absent", items |-> <<>>]
NullList == [t |-> "null", items |-> <<>>]

FullAddress ==
    [t |-> "obj", Title |-> JStr("X"), Latitude |-> JNum(48), Longitude |-> JNum(2),
     Distance |-> JNum(1), AddressLine1 |-> JStr("1 Main St"), Town |-> JStr("Paris"),
     StateOrProvince |-> JAbsent, Postcode |-> JNull,
     Country |-> TitleObj(JStr("France")), ContactTelephone1 |-> JStr("555")]

FullItem ==
    [t |-> "obj", ID |-> JNum(7), AddressInfo |-> FullAddress,
     UsageType |-> TitleObj(JStr("Public")), OperatorInfo |-> TitleObj(JStr("Acme")),
     StatusType |-> TitleObj(JStr("Operational")), NumberOfPoints |-> JNum(2),
     Connections |-> ConnList(<<Conn(TitleObj(JStr("Type2")), TitleObj(JStr("Level 2")))>>)]

\* an element of the array that is no JSON object
NonDictItem(tag) == [FullItem EXCEPT !.t = tag]

\* the optional fields, each missing as an absent key and as a null value
OptionalVariants ==
    {[FullItem EXCEPT !.AddressInfo.Title = v] : v \in {JAbsent, JNull}}
    \cup {[FullItem EXCEPT !.AddressInfo.ContactTelephone1 = v] : v \in {JAbsent, JNull}}
    \cup {[FullItem EXCEPT !.AddressInfo.Distance = v] : v \in {JNull}}
    \cup {[FullItem EXCEPT !.AddressInfo.Country = v] : v \in {AbsentObj, NullObj}}
    \cup {[FullItem EXCEPT !.OperatorInfo = v] : v \in {AbsentObj, NullObj}}
    \cup {[FullItem EXCEPT !.StatusType = v] : v \in {AbsentObj, NullObj}}
    \cup {[FullItem EXCEPT !.UsageType = v] : v \in {AbsentObj, NullObj}}
    \cup {[FullItem EXCEPT !.NumberOfPoints = v] : v \in {JAbsent, JNull}}
    \cup {[FullItem EXCEPT !.Connections = v] :
            v \in {AbsentList, NullList, ConnList(<<>>),
                   ConnList(<<Conn(AbsentObj, TitleObj(JStr("Level 2")))>>),
                   ConnList(<<Conn(TitleObj(JStr("Type2")), AbsentObj)>>),
                   ConnList(<<Conn(TitleObj(JStr("Type2")), NullObj),
                              Conn(TitleObj(JStr("CCS")), AbsentObj)>>)}}

CoordinateVariants ==
    {[FullItem EXCEPT !.AddressInfo.Latitude = v] : v \in {JAbsent, JNull}}
    \cup {[FullItem EXCEPT !.AddressInfo.Longitude = v] : v \in {JAbsent, JNull}}
    \cup {[FullItem EXCEPT !.AddressInfo = [EmptyAddressInfo EXCEPT !.t = v]] :
            v \in {"absent", "null"}}

MalformedVariants ==
    {NonDictItem("null"), NonDictItem("str"),
     [FullItem EXCEPT !.Connections = ConnList(<<NullConn>>)]}

RawItems == {FullItem} \cup OptionalVariants \cup CoordinateVariants \cup MalformedVariants

RECURSIVE SeqsUpTo(_, _)
SeqsUpTo(S, n) ==
    IF n = 0 THEN {<<>>}
    ELSE LET shorter == SeqsUpTo(S, n - 1)
         IN shorter \cup {Append(q, x) : q \in {r \in shorter : Len(r) = n - 1}, x \in S}

RawArrays == SeqsUpTo(RawItems, MaxRawLen)

\* ------------------------------------------------------------- the request
Forbidden == 403

Statuses == {200, 300, Forbidden, 404, 500}

\* what session.get and response.json() meet: the transport outcome, the status,
\* the body (the array raw_data, text that is no JSON, or the JSON value null) and
\* whether this requests build's JSONDecodeError is a RequestException
Responses ==
    {[transport |-> tr, status |-> 0, body |-> "none", decode_error |-> "json"] :
        tr \in {"connection_error", "timeout"}}
    \cup {[transport |-> "ok", status |-> st, body |-> b, decode_error |-> "json"] :
            st \in Statuses, b \in {"array", "null"}}
    \cup {[transport |-> "ok", status |-> st, body |-> "malformed", decode_error |-> d] :
            st \in Statuses, d \in {"json", "request"}}

NoResult == [kind |-> "none", error |-> "", stations |-> <<>>, normalizer_ran |-> FALSE]
Raised(msg, ran) ==
    [kind |-> "raised", error |-> msg, stations |-> <<>>, normalizer_ran |-> ran]
Returned(stations) ==
    [kind |-> "returned", error |-> "", stations |-> stations, normalizer_ran |-> TRUE]

\* response.raise_for_status(): HTTPError for a 4xx or 5xx status
RaiseForStatusRaises(status) == 400 <= status /\ status < 600

IsForbiddenNever(status) == FALSE

IsForbidden(status) == status = Forbidden

\* get_charging_stations for one response; data is the array of an "array" body
GetChargingStations(resp, data) ==
    IF resp.transport # "ok"
        THEN Raised("API request failed", FALSE)
    ELSE IF IsForbidden(resp.status)
        THEN Raised("Access forbidden (403)", FALSE)
    ELSE IF RaiseForStatusRaises(resp.status)
        THEN Raised("API request failed", FALSE)
    ELSE IF resp.body = "malformed"
        THEN IF resp.decode_error = "request"
                THEN Raised("API request failed", FALSE)
                ELSE Raised("Failed to parse API response", FALSE)
    ELSE IF resp.body = "null"
        THEN Raised("TypeError", FALSE)
    ELSE IF ProcessChargingStations(data).raised
        THEN Raised("AttributeError", TRUE)
        ELSE Returned(ProcessChargingStations(data).stations)

\* the session.get calls of get_charging_stations for one response: the call of
\* the try block, in no loop, and none in the except blocks
GetCalls(resp) == 1

NoResponse == [transport |-> "none", status |-> 0, body |-> "none", decode_error |-> "json"]

\* ------------------------------------------------------------- strings
\* the strings of the model in Python's (code point) order
StrOrder ==
    <<"", "Acme", "Alpha", "Bolt", "CCS", "Level 2", "Level 3", "Operational",
      "Planned", "Public", "Type2", "Unknown", "Unknown Station", "X", "acme",
      "alpha", "beta", "bolt", "operational", "planned", "public", "unknown",
      "unknown station", "x">>

StrRank(x) == CHOOSE i \in 1..Len(StrOrder) : StrOrder[i] = x

\* str.lower()
Lower(x) ==
    CASE x = "Acme" -> "acme"
      [] x = "Alpha" -> "alpha"
      [] x = "Bolt" -> "bolt"
      [] x = "Operational" -> "operational"
      [] x = "Planned" -> "planned"
      [] x = "Public" -> "public"
      [] x = "Unknown" -> "unknown"
      [] x = "Unknown Station" -> "unknown station"
      [] x = "X" -> "x"
      [] OTHER -> x

\* sorted(values) of a set of strings
RECURSIVE SortedStrings(_)
SortedStrings(values) ==
    IF values = {} THEN <<>>
    ELSE LET x == CHOOSE v \in values : \A w \in values : StrRank(v) <= StrRank(w)
         IN <<x>> \o SortedStrings(values \ {x})

\* ------------------------------------------------------------- filter and sort
FilterTypes == {"All", "Access Type", "Operator", "Status", "Connection Type", "Power Level"}
SortKeys == {"Distance", "Name", "Operator", "Status", "Number of Points"}

StationMatchesFilterAlways(station, filter_type, filter_value) == TRUE

\* _station_matches_filter
StationMatchesFilter(station, filter_type, filter_value) ==
    CASE filter_type = "Access Type" -> station.access_type = JStr(filter_value)
      [] filter_type = "Operator" -> station.operator = JStr(filter_value)
      [] filter_type = "Status" -> station.status = JStr(filter_value)
      [] filter_type = "Connection Type" -> filter_value \in station.connection_types
      [] filter_type = "Power Level" -> filter_value \in station.power_levels
      [] OTHER -> TRUE

\* the filter step of apply_filters: a copy of the list, or the matching stations
RECURSIVE SelectMatching(_, _, _)
SelectMatching(stations, filter_type, filter_value) ==
    IF stations = <<>> THEN <<>>
    ELSE IF StationMatchesFilter(Head(stations), filter_type, filter_value)
        THEN <<Head(stations)>> \o SelectMatching(Tail(stations), filter_type, filter_value)
        ELSE SelectMatching(Tail(stations), filter_type, filter_value)

\* the filter step handing on copies of the station dicts
FilterStepCopiesRecords(stations, filter_type, filter_value) ==
    LET matching == IF filter_type = "All" \/ filter_value = ""
                        THEN stations
                        ELSE SelectMatching(stations, filter_type, filter_value)
    IN [i \in 1..Len(matching) |-> [matching[i] EXCEPT !.src = 0]]

FilterStepAlwaysSelects(stations, filter_type, filter_value) ==
    SelectMatching(stations, filter_type, filter_value)

FilterStep(stations, filter_type, filter_value) ==
    IF filter_type = "All" \/ filter_value = ""
        THEN stations
        ELSE SelectMatching(stations, filter_type, filter_value)

\* the keys as the fields are, letter case kept
SortKeyCaseKept(station, sort_by) ==
    CASE sort_by = "Distance" -> station.distance
      [] sort_by = "Name" -> station.name
      [] sort_by = "Operator" -> station.operator
      [] sort_by = "Status" -> station.status
      [] sort_by = "Number of Points" -> station.num_points

\* the key function of each sort_by; a string key is lower-cased
SortKey(station, sort_by) ==
    CASE sort_by = "Distance" -> station.distance
      [] sort_by = "Name" -> JStr(Lower(station.name.s))
      [] sort_by = "Operator" -> JStr(Lower(station.operator.s))
      [] sort_by = "Status" -> JStr(Lower(station.status.s))
      [] sort_by = "Number of Points" -> station.num_points

\* key a < key b, for two keys Python can compare
KeyLess(a, b) ==
    IF a.t = "str" THEN StrRank(a.s) < StrRank(b.s) ELSE a.n < b.n

\* list.sort compares every element of a list of two or more with another one:
\* a None key there is a TypeError
SortRaises(stations, sort_by) ==
    /\ Len(stations) >= 2
    /\ \E i \in 1..Len(stations) : SortKey(stations[i], sort_by).t = "null"

\* x put in front of the elements with its key
RECURSIVE InsertByKeyBeforeEqual(_, _, _, _)
InsertByKeyBeforeEqual(sorted, x, sort_by, reverse) ==
    IF sorted = <<>> THEN <<x>>
    ELSE IF (IF reverse
                THEN ~KeyLess(SortKey(x, sort_by), SortKey(Head(sorted), sort_by))
                ELSE ~KeyLess(SortKey(Head(sorted), sort_by), SortKey(x, sort_by)))
        THEN <<x>> \o sorted
        ELSE <<Head(sorted)>> \o InsertByKeyBeforeEqual(Tail(sorted), x, sort_by, reverse)

\* x goes behind every element that does not sort after it: the sort is stable,
\* with reverse too
RECURSIVE InsertByKey(_, _, _, _)
InsertByKey(sorted, x, sort_by, reverse) ==
    IF sorted = <<>> THEN <<x>>
    ELSE IF (IF reverse
                THEN KeyLess(SortKey(Head(sorted), sort_by), SortKey(x, sort_by))
                ELSE KeyLess(SortKey(x, sort_by), SortKey(Head(sorted), sort_by)))
        THEN <<x>> \o sorted
        ELSE <<Head(sorted)>> \o InsertByKey(Tail(sorted), x, sort_by, reverse)

RECURSIVE SortFrom(_, _, _, _)
SortFrom(sorted, rest, sort_by, reverse) ==
    IF rest = <<>> THEN sorted
    ELSE SortFrom(InsertByKey(sorted, Head(rest), sort_by, reverse), Tail(rest),
                  sort_by, reverse)

\* list.sort(key=..., reverse=reverse) when no comparison raises
SortStations(stations, sort_by, reverse) == SortFrom(<<>>, stations, sort_by, reverse)

\* the orders a list can be left in
Orders(stations) ==
    {[i \in 1..Len(stations) |-> stations[f[i]]] :
        f \in {g \in [1..Len(stations) -> 1..Len(stations)] :
                \A i, j \in 1..Len(stations) : i # j => g[i] # g[j]}}

\* max_results_spin.setRange(10, 1000) and setValue(200): the values the model
\* sets it to
SpinMin == 10
SpinDefault == 200
SpinValues == {SpinMin, SpinDefault}

\* max_results of get_charging_stations, which get_async and APIWorker.run leave
\* at its default
MaxResultsDefault == 200

\* ------------------------------------------------------------- catalogs
\* raw items of the dialog specifications
Item(id, name, operator, status, distance, num_points, connections) ==
    [t |-> "obj", ID |-> JNum(id),
     AddressInfo |-> [FullAddress EXCEPT !.Title = JStr(name), !.Distance = distance],
     UsageType |-> TitleObj(JStr("Public")), OperatorInfo |-> operator,
     StatusType |-> TitleObj(JStr(status)), NumberOfPoints |-> num_points,
     Connections |-> connections]

ItemBeta ==
    Item(1, "beta", TitleObj(JStr("Acme")), "Operational", JNum(2), JNum(4),
         ConnList(<<Conn(TitleObj(JStr("Type2")), TitleObj(JStr("Level 2")))>>))
ItemAlpha ==
    Item(2, "Alpha", TitleObj(JStr("Bolt")), "Planned", JNum(1), JNum(2),
         ConnList(<<Conn(TitleObj(JStr("CCS")), TitleObj(JStr("Level 3"))),
                    Conn(TitleObj(JStr("Type2")), TitleObj(JStr("Level 2")))>>))
ItemNoDistance ==
    Item(3, "alpha", TitleObj(JStr("Acme")), "Operational", JNull, JNull, ConnList(<<>>))
ItemNoOperator ==
    Item(4, "alpha", AbsentObj, "Operational", JNum(2), JAbsent,
         ConnList(<<Conn(AbsentObj, TitleObj(JStr("Level 2")))>>))
ItemNoCoordinates ==
    [ItemBeta EXCEPT !.ID = JNum(5), !.AddressInfo.Latitude = JNull]

\* the arrays the server answers with in the dialog specification
DialogBodies == {<<>>, <<ItemBeta, ItemAlpha>>, <<ItemNoCoordinates, ItemNoOperator>>}

\* the responses the workers of the dialog specifications meet
DialogResponses ==
    {r \in Responses :
        \/ r.transport = "timeout"
        \/ r.transport = "ok" /\ r.body = "array" /\ r.status \in {200, Forbidden}}

\* what get_charging_stations can do for a worker of the life-cycle specification
DialogOutcomes ==
    {GetChargingStations(resp, body) : resp \in DialogResponses, body \in DialogBodies}

\* longest response array of the catalog specification
MaxCatalogLen == 2

CatalogItems == {ItemBeta, ItemAlpha, ItemNoDistance, ItemNoOperator}
CatalogBodies == SeqsUpTo(CatalogItems, MaxCatalogLen)
CatalogOutcomes ==
    {GetChargingStations(resp, body) : resp \in DialogResponses, body \in CatalogBodies}

\* ------------------------------------------------------------- map
Point(x, y) == [x |-> x, y |-> y]
Points == {Point(1, 2), Point(3, 4)}
NoPoint == Point(0, 0)

\* QgsCoordinateTransform(project_crs, wgs84_crs).transform(point), when it succeeds
ToWgs84(point) == Point(point.x + 100, point.y + 100)

\* the project CRS is EPSG:4326, or the transform works, or it raises
CrsCases == {"wgs84", "transforms", "raises"}

\* radius_slider.setRange(1, 200) and setValue(10): the values the model moves it to
SliderMin == 1
SliderDefault == 10
SliderValues == {SliderMin, SliderDefault}

\* ------------------------------------------------------------- state
VARIABLES
    raw_data,       \* client: the JSON array the server has for this request
    response,       \* client: the response get_charging_stations met
    result,         \* client: what get_charging_stations did
    processed,      \* client: what _process_charging_stations did on raw_data
    get_calls,      \* client: the calls of session.get made for this search
    center,         \* dialog: center_x / center_y, set = hasattr
    search_btn,     \* dialog: search_btn.isEnabled()
    progress_bar,   \* dialog: progress_bar.isVisible()
    status_label,   \* dialog: the kind of text shown
    api_worker,     \* dialog: position in workers of self.api_worker, 0 = None
    workers,        \* every APIWorker started so far
    last_finished,  \* history: the worker and the list of the latest finished signal
    latest_finished,    \* history: the same for the latest started worker that finished
    transform_outcome,  \* history: the CRS case of the latest handle_radius_update
    current_stations,
    filtered_stations,
    results_table,  \* the station shown on each row
    selected_rows,  \* the rows of the table that are selected
    export_pdf_btn, \* export_pdf_btn.isEnabled()
    pdf_exporter,   \* TRUE: a PDFExporter, FALSE: None (reportlab is not installed)
    export,         \* history: what the latest export_to_pdf did
    sort_outcome,   \* history: how the list.sort of the latest apply_filters on
                    \* this catalog ended: "none", "completed", "raised"
    filter_combo,   \* current text
    filter_value_combo,     \* [items, text]
    sort_combo,
    sort_desc_check,
    api_key_edit,
    max_results_spin,
    layer_name_edit,
    remove_existing_check,
    map_tool,       \* plugin: RadiusMapTool [created, center_point, has_center, widget, slider]
    canvas_tool,    \* the map tool of the canvas: "none", "radius", "identify"
    center_point_layer,     \* [exists, features]
    search_area_layer,      \* [exists, features]
    station_layers  \* the charging-station layers of the project

clientVars == <<raw_data, response, result, processed, get_calls>>
searchVars == <<center, search_btn, progress_bar, api_worker, workers>>
historyVars == <<last_finished, latest_finished, transform_outcome>>
selectionVars == <<selected_rows, export_pdf_btn>>
exportVars == <<pdf_exporter, export>>
catalogVars == <<current_stations, filtered_stations, results_table, selectionVars,
                 sort_outcome, status_label, filter_value_combo>>
widgetVars == <<filter_combo, sort_combo, sort_desc_check>>
settingVars == <<api_key_edit, max_results_spin, layer_name_edit, remove_existing_check>>
toolVars == <<map_tool, canvas_tool>>
previewVars == <<center_point_layer, search_area_layer>>
vars == <<clientVars, searchVars, historyVars, catalogVars, widgetVars, settingVars,
          exportVars, toolVars,
          previewVars, station_layers>>

NoExport == [outcome |-> "none", render |-> "none", stations |-> <<>>]

NoLayer == [exists |-> FALSE, features |-> <<>>]

\* ChargeSpotDialog.__init__, setupUi and ChargeSpot.__init__
DialogInit ==
    /\ pdf_exporter = TRUE
    /\ center = [set |-> FALSE, x |-> 0, y |-> 0]
    /\ search_btn = FALSE
    /\ progress_bar = FALSE
    /\ status_label = "Ready"
    /\ api_worker = 0
    /\ workers = <<>>
    /\ last_finished = [w |-> 0, stations |-> <<>>]
    /\ latest_finished = [w |-> 0, stations |-> <<>>]
    /\ transform_outcome = "none"
    /\ current_stations = <<>>
    /\ filtered_stations = <<>>
    /\ results_table = <<>>
    /\ selected_rows = {}
    /\ export_pdf_btn = FALSE
    /\ export = NoExport
    /\ sort_outcome = "none"
    /\ filter_combo = "All"
    /\ filter_value_combo = [items |-> <<>>, text |-> ""]
    /\ sort_combo = "Distance"
    /\ sort_desc_check = FALSE
    /\ api_key_edit = ""
    /\ max_results_spin = SpinDefault
    /\ layer_name_edit = "Charging Stations"
    /\ remove_existing_check = TRUE
    /\ map_tool = [created |-> FALSE, has_center |-> FALSE, center_point |-> NoPoint,
                   widget |-> FALSE, slider |-> SliderDefault]
    /\ canvas_tool = "none"
    /\ center_point_layer = NoLayer
    /\ search_area_layer = NoLayer
    /\ station_layers = <<>>

ClientIdle ==
    /\ raw_data = <<>>
    /\ response = NoResponse
    /\ result = NoResult
    /\ processed = NoResult
    /\ get_calls = 0

dialogVars == <<searchVars, historyVars, catalogVars, widgetVars, settingVars,
                exportVars, toolVars,
                previewVars, station_layers>>

\* ------------------------------------------------------------- client specification
ClientInit ==
    /\ raw_data \in RawArrays
    /\ response = NoResponse
    /\ result = NoResult
    /\ processed = NoResult
    /\ get_calls = 0
    /\ DialogInit

\* _process_charging_stations on the array
Normalize ==
    /\ processed.kind = "none"
    /\ result.kind = "none"
    /\ processed' = (IF ProcessChargingStations(raw_data).raised
                        THEN Raised("AttributeError", TRUE)
                        ELSE Returned(ProcessChargingStations(raw_data).stations))
    /\ UNCHANGED <<raw_data, response, result, get_calls, dialogVars>>

\* get_charging_stations on one response
Search ==
    /\ processed.kind = "none"
    /\ result.kind = "none"
    /\ \E resp \in Responses :
        /\ response' = resp
        /\ get_calls' = get_calls + GetCalls(resp)
        /\ result' = GetChargingStations(resp, raw_data)
    /\ UNCHANGED <<raw_data, processed, dialogVars>>

ClientNext == Normalize \/ Search

SpecClient == ClientInit /\ [][ClientNext]_vars

\* ------------------------------------------------------------- catalog view
\* the part of the dialog that apply_filters and update_filter_values write
View == [filtered |-> filtered_stations, table |-> results_table, sort |-> sort_outcome,
         status |-> status_label, combo |-> filter_value_combo]

\* apply_filters with the widgets at these values: the views it can end in.
\* When list.sort raises, filtered_stations is left in some order and the table
\* and the status label are not updated.
ApplyFilters(stations, filter_type, filter_value, sort_by, reverse, view) ==
    IF stations = <<>> THEN {view}
    ELSE LET matching == FilterStep(stations, filter_type, filter_value)
         IN IF SortRaises(matching, sort_by)
                THEN {[view EXCEPT !.filtered = o, !.sort = "raised"] :
                        o \in Orders(matching)}
                ELSE {[view EXCEPT !.filtered = SortStations(matching, sort_by, reverse),
                                   !.table = SortStations(matching, sort_by, reverse),
                                   !.sort = "completed",
                                   !.status = "Showing"]}

\* the values update_filter_values collects for a filter type
FilterValuesWithUnknown(stations, filter_type) ==
    CASE filter_type = "Access Type" ->
            {stations[i].access_type.s : i \in 1..Len(stations)} \cup {"Unknown"}
      [] filter_type = "Operator" ->
            {stations[i].operator.s : i \in 1..Len(stations)} \cup {"Unknown"}
      [] filter_type = "Status" ->
            {stations[i].status.s : i \in 1..Len(stations)} \cup {"Unknown"}
      [] filter_type = "Connection Type" ->
            UNION {stations[i].connection_types : i \in 1..Len(stations)} \cup {"Unknown"}
      [] filter_type = "Power Level" ->
            UNION {stations[i].power_levels : i \in 1..Len(stations)} \cup {"Unknown"}
      [] OTHER -> {}

FilterValues(stations, filter_type) ==
    CASE filter_type = "Access Type" ->
            {stations[i].access_type.s : i \in 1..Len(stations)}
      [] filter_type = "Operator" -> {stations[i].operator.s : i \in 1..Len(stations)}
      [] filter_type = "Status" -> {stations[i].status.s : i \in 1..Len(stations)}
      [] filter_type = "Connection Type" ->
            UNION {stations[i].connection_types : i \in 1..Len(stations)}
      [] filter_type = "Power Level" ->
            UNION {stations[i].power_levels : i \in 1..Len(stations)}
      [] OTHER -> {}

\* filter_value_combo.clear(): currentTextChanged fires when a text was shown, and
\* apply_filters runs with the empty text
ClearValueCombo(stations, filter_type, sort_by, reverse, view) ==
    LET cleared == [view EXCEPT !.combo = [items |-> <<>>, text |-> ""]]
    IN IF view.combo.text # ""
        THEN ApplyFilters(stations, filter_type, "", sort_by, reverse, cleared)
        ELSE {cleared}

\* update_filter_values: clear, then addItems(sorted(values)), which shows the
\* first item and fires currentTextChanged, so apply_filters runs with it
UpdateFilterValues(stations, filter_type, sort_by, reverse, view) ==
    UNION {
        IF filter_type = "All" \/ stations = <<>>
            \/ FilterValues(stations, filter_type) = {}
        THEN {v}
        ELSE LET items == SortedStrings(FilterValues(stations, filter_type))
             IN ApplyFilters(stations, filter_type, items[1], sort_by, reverse,
                             [v EXCEPT !.combo = [items |-> items, text |-> items[1]]])
        : v \in ClearValueCombo(stations, filter_type, sort_by, reverse, view)}

SetView(view) ==
    /\ filtered_stations' = view.filtered
    /\ results_table' = view.table
    /\ selected_rows' = selected_rows \cap (1..Len(view.table))
    /\ export_pdf_btn' = (selected_rows \cap (1..Len(view.table)) # {})
    /\ sort_outcome' = view.sort
    /\ status_label' = view.status
    /\ filter_value_combo' = view.combo

\* ------------------------------------------------------------- layers
\* create_charging_stations_layer and QgsProject.addMapLayer in
\* handle_search_results: one feature per station
LayerName == IF layer_name_edit # "" THEN layer_name_edit ELSE "Charging Stations"

RECURSIVE WithoutName(_, _)
WithoutName(layers, name) ==
    IF layers = <<>> THEN <<>>
    ELSE IF Head(layers).name = name THEN WithoutName(Tail(layers), name)
    ELSE <<Head(layers)>> \o WithoutName(Tail(layers), name)

AddStationsLayerKeepsExisting(stations) ==
    Append(station_layers, [name |-> LayerName, features |-> stations])

AddStationsLayer(stations) ==
    Append(IF remove_existing_check THEN WithoutName(station_layers, LayerName)
           ELSE station_layers,
           [name |-> LayerName, features |-> stations])

\* preview_radius_update: the center layer is created or truncated, the point is
\* added; update_search_area then creates or truncates the area layer and adds the
\* circle around the first feature of the center layer
PreviewAppends(point, radius_km) ==
    /\ center_point_layer' =
        [exists |-> TRUE, features |-> Append(center_point_layer.features, point)]
    /\ search_area_layer' =
        [exists |-> TRUE,
         features |-> Append(search_area_layer.features,
                             [center |-> point, radius |-> radius_km])]

Preview(point, radius_km) ==
    /\ center_point_layer' = [exists |-> TRUE, features |-> <<point>>]
    /\ search_area_layer' =
        [exists |-> TRUE, features |-> <<[center |-> point, radius |-> radius_km]>>]

\* ------------------------------------------------------------- map tool
\* request_map_click -> activate_map_tool: the tool is created once and set
RequestMapClick ==
    /\ map_tool' = [map_tool EXCEPT !.created = TRUE]
    /\ canvas_tool' = "radius"
    /\ UNCHANGED <<clientVars, searchVars, historyVars, catalogVars, widgetVars,
                   settingVars, exportVars, previewVars, station_layers>>

\* RadiusMapTool.canvasPressEvent with the left button
CanvasPressEnablesSearch(point) ==
    /\ canvas_tool = "radius"
    /\ map_tool' = [map_tool EXCEPT !.has_center = TRUE, !.center_point = point,
                                    !.widget = TRUE]
    /\ Preview(point, map_tool.slider)
    /\ search_btn' = TRUE
    /\ UNCHANGED <<clientVars, center, progress_bar, api_worker, workers, historyVars,
                   catalogVars, widgetVars, settingVars, exportVars, canvas_tool,
                   station_layers>>

CanvasPress(point) ==
    /\ canvas_tool = "radius"
    /\ map_tool' = [map_tool EXCEPT !.has_center = TRUE, !.center_point = point,
                                    !.widget = TRUE]
    /\ Preview(point, map_tool.slider)
    /\ UNCHANGED <<clientVars, searchVars, historyVars, catalogVars, widgetVars,
                   settingVars, exportVars, canvas_tool, station_layers>>

\* RadiusMapTool.on_radius_changed: the slider of the shown control widget moves
RadiusChanged(value) ==
    /\ map_tool.widget
    /\ value # map_tool.slider
    /\ map_tool' = [map_tool EXCEPT !.slider = value]
    /\ IF map_tool.has_center
        THEN Preview(map_tool.center_point, value)
        ELSE UNCHANGED previewVars
    /\ UNCHANGED <<clientVars, searchVars, historyVars, catalogVars, widgetVars,
                   settingVars, exportVars, canvas_tool, station_layers>>

\* ------------------------------------------------------------- search
\* the user sets the Max Results control; no signal of it is connected
MaxResultsChanged(value) ==
    /\ value # max_results_spin
    /\ max_results_spin' = value
    /\ UNCHANGED <<clientVars, searchVars, historyVars, catalogVars, widgetVars,
                   api_key_edit, layer_name_edit, remove_existing_check, exportVars,
                   toolVars, previewVars, station_layers>>

\* the texts typed into api_key_edit
KeyTexts == {"", " ", "key", " key "}

\* str.strip() of such a text, with nothing cut off
StripKeepsBlanks(text) == text

\* str.strip() of such a text
Strip(text) ==
    CASE text = " " -> ""
      [] text = " key " -> "key"
      [] OTHER -> text

\* api_key_edit.text().strip(), None when nothing is left
ApiKey == IF Strip(api_key_edit) # "" THEN Strip(api_key_edit) ELSE "None"

\* headers['X-API-Key'] of the request get_charging_stations makes with this
\* api_key, "absent" when the header is not set
XApiKeyHeader(api_key) == IF api_key \notin {"None", ""} THEN api_key ELSE "absent"

\* the user types into api_key_edit; no signal of it is connected
ApiKeyEdited(text) ==
    /\ text # api_key_edit
    /\ api_key_edit' = text
    /\ UNCHANGED <<clientVars, searchVars, historyVars, catalogVars, widgetVars,
                   max_results_spin, layer_name_edit, remove_existing_check,
                   exportVars, toolVars, previewVars, station_layers>>

\* get_async and start: a new APIWorker, which self.api_worker now names
StartWorker(latitude, longitude, search_radius) ==
    /\ workers' = Append(workers,
            [state |-> "running", latitude |-> latitude, longitude |-> longitude,
             radius |-> search_radius, api_key |-> ApiKey,
             max_results |-> MaxResultsDefault])
    /\ api_worker' = Len(workers) + 1

\* search_charging_stations once the center point is known to be set
StartSearch(x, y, search_radius) ==
    /\ search_btn' = FALSE
    /\ progress_bar' = TRUE
    /\ status_label' = "Searching"
    /\ StartWorker(y, x, search_radius)

\* handle_radius_update's api_x, api_y: the transformed point when the project CRS
\* is not WGS84 and the transform succeeds, the point itself when the project is
\* in WGS84 or the transform raises
ApiPointAlwaysTransformed(crs, point) == ToWgs84(point)

ApiPoint(crs, point) ==
    IF crs = "transforms" THEN ToWgs84(point) ELSE point

\* RadiusMapTool.on_search_clicked -> ChargeSpot.handle_radius_update ->
\* set_center_point and search_charging_stations(radius_km); the tool is unset
ToolSearchClicked ==
    /\ map_tool.widget
    /\ map_tool.has_center
    /\ Len(workers) < MaxSearches
    /\ Preview(map_tool.center_point, map_tool.slider)
    /\ \E crs \in CrsCases :
        LET api == ApiPoint(crs, map_tool.center_point)
        IN /\ transform_outcome' = crs
           /\ center' = [set |-> TRUE, x |-> api.x, y |-> api.y]
           /\ StartSearch(api.x, api.y, map_tool.slider)
    /\ map_tool' = [map_tool EXCEPT !.widget = FALSE]
    /\ canvas_tool' = IF canvas_tool = "radius" THEN "none" ELSE canvas_tool
    /\ UNCHANGED <<clientVars, last_finished, latest_finished, current_stations, filtered_stations,
                   results_table, selectionVars, sort_outcome, filter_value_combo,
                   widgetVars, settingVars, exportVars, station_layers>>

\* search_btn.clicked -> search_charging_stations(checked): the slot receives the
\* button's checked = False as radius_km, which is not None, so the radius is
\* False (0)
DialogSearchClicked ==
    /\ search_btn
    /\ Len(workers) < MaxSearches
    /\ IF ~center.set
        THEN UNCHANGED <<search_btn, progress_bar, status_label, workers, api_worker>>
        ELSE StartSearch(center.x, center.y, 0)
    /\ UNCHANGED <<clientVars, historyVars, center, current_stations,
                   filtered_stations, results_table, selectionVars, sort_outcome,
                   filter_value_combo, widgetVars, settingVars, exportVars, toolVars,
                   previewVars, station_layers>>

\* handle_api_response, with search_completed -> handle_search_results
HandleApiResponse(stations) ==
    /\ search_btn' = TRUE
    /\ progress_bar' = FALSE
    /\ IF stations = <<>>
        THEN /\ status_label' = "No charging stations found"
             /\ UNCHANGED <<current_stations, filtered_stations, results_table,
                            selectionVars, sort_outcome, filter_value_combo, toolVars,
                            station_layers>>
        ELSE /\ current_stations' = stations
             /\ \E view \in UpdateFilterValues(stations, filter_combo, sort_combo,
                                sort_desc_check,
                                [filtered |-> stations, table |-> stations,
                                 sort |-> "none", status |-> "Found",
                                 combo |-> filter_value_combo]) :
                    SetView(view)
             /\ station_layers' = AddStationsLayer(stations)
             /\ canvas_tool' = "identify"
             /\ map_tool' = [map_tool EXCEPT !.widget = FALSE]

\* handle_api_error
HandleApiErrorKeepsSearching(error_message) ==
    /\ status_label' = "Search failed"
    /\ UNCHANGED <<search_btn, progress_bar, current_stations, filtered_stations,
                   results_table, selectionVars, sort_outcome, filter_value_combo,
                   toolVars, station_layers>>

HandleApiErrorClearsCatalog(error_message) ==
    /\ search_btn' = TRUE
    /\ progress_bar' = FALSE
    /\ status_label' = "Search failed"
    /\ current_stations' = <<>>
    /\ filtered_stations' = <<>>
    /\ UNCHANGED <<results_table, selectionVars, sort_outcome, filter_value_combo,
                   toolVars, station_layers>>

HandleApiError(error_message) ==
    /\ search_btn' = TRUE
    /\ progress_bar' = FALSE
    /\ status_label' = "Search failed"
    /\ UNCHANGED <<current_stations, filtered_stations, results_table, selectionVars,
                   sort_outcome, filter_value_combo, toolVars, station_layers>>

\* the signal a worker has emitted, once its slot has run; nothing reads the
\* request of a worker again after that
Delivered(signal) ==
    [state |-> signal, latitude |-> 0, longitude |-> 0, radius |-> 0, api_key |-> "None",
     max_results |-> 0]

\* APIWorker.run of a started worker returns stations: finished is emitted and
\* handle_api_response runs
WorkerFinished(outcome) ==
    \E w \in 1..Len(workers) :
        /\ workers[w].state = "running"
        /\ outcome.kind = "returned"
        /\ HandleApiResponse(outcome.stations)
        /\ workers' = [workers EXCEPT ![w] = Delivered("finished")]
        /\ last_finished' = [w |-> w, stations |-> outcome.stations]
        /\ latest_finished' = IF w > latest_finished.w
                                THEN [w |-> w, stations |-> outcome.stations]
                                ELSE latest_finished
        /\ UNCHANGED <<clientVars, center, api_worker, transform_outcome, widgetVars,
                       settingVars, exportVars, previewVars>>

\* APIWorker.run of a started worker catches an exception: error is emitted and
\* handle_api_error runs
WorkerError(outcome) ==
    \E w \in 1..Len(workers) :
        /\ workers[w].state = "running"
        /\ outcome.kind = "raised"
        /\ HandleApiError(outcome.error)
        /\ workers' = [workers EXCEPT ![w] = Delivered("error")]
        /\ UNCHANGED <<clientVars, historyVars, center, api_worker, widgetVars,
                       settingVars, exportVars, previewVars>>

\* ------------------------------------------------------------- results tab
\* filter_combo.currentTextChanged -> update_filter_values
FilterTypeChanged ==
    \E filter_type \in FilterTypes \ {filter_combo} :
        /\ filter_combo' = filter_type
        /\ \E view \in UpdateFilterValues(current_stations, filter_type, sort_combo,
                                          sort_desc_check, View) : SetView(view)
        /\ UNCHANGED <<clientVars, searchVars, historyVars, current_stations, sort_combo,
                       sort_desc_check, settingVars, exportVars, toolVars, previewVars,
                       station_layers>>

\* filter_value_combo.currentTextChanged -> apply_filters: another item is picked
FilterValueChanged ==
    \E i \in 1..Len(filter_value_combo.items) :
        /\ filter_value_combo.items[i] # filter_value_combo.text
        /\ \E view \in ApplyFilters(current_stations, filter_combo,
                            filter_value_combo.items[i], sort_combo, sort_desc_check,
                            [View EXCEPT !.combo.text = filter_value_combo.items[i]]) :
                SetView(view)
        /\ UNCHANGED <<clientVars, searchVars, historyVars, current_stations, widgetVars,
                       settingVars, exportVars, toolVars, previewVars, station_layers>>

\* sort_combo.currentTextChanged -> apply_filters
SortChanged ==
    \E sort_by \in SortKeys \ {sort_combo} :
        /\ sort_combo' = sort_by
        /\ \E view \in ApplyFilters(current_stations, filter_combo,
                            filter_value_combo.text, sort_by, sort_desc_check, View) :
                SetView(view)
        /\ UNCHANGED <<clientVars, searchVars, historyVars, current_stations, filter_combo,
                       sort_desc_check, settingVars, exportVars, toolVars, previewVars,
                       station_layers>>

\* sort_desc_check.toggled -> apply_filters
DescendingToggled ==
    /\ sort_desc_check' = ~sort_desc_check
    /\ \E view \in ApplyFilters(current_stations, filter_combo, filter_value_combo.text,
                                sort_combo, ~sort_desc_check, View) : SetView(view)
    /\ UNCHANGED <<clientVars, searchVars, historyVars, current_stations, filter_combo, sort_combo,
                   settingVars, exportVars, toolVars, previewVars, station_layers>>

\* ------------------------------------------------------------- specifications
Init == ClientIdle /\ DialogInit

\* the search life cycle: the dialog, the map tool and the workers
Next ==
    \/ RequestMapClick
    \/ \E point \in Points : CanvasPress(point)
    \/ \E value \in SliderValues : RadiusChanged(value)
    \/ ToolSearchClicked
    \/ DialogSearchClicked
    \/ \E outcome \in DialogOutcomes : WorkerFinished(outcome)
    \/ \E outcome \in DialogOutcomes : WorkerError(outcome)

Spec == Init /\ [][Next]_vars

\* what get_charging_stations can do for a worker of the request specification
RequestOutcomes ==
    {GetChargingStations(resp, <<ItemBeta>>) : resp \in DialogResponses}

\* the map points clicked in the request specification
RequestPoints == {Point(1, 2)}

\* the requests of the searches: the life cycle with the API key and Max Results
\* fields
RequestNext ==
    \/ RequestMapClick
    \/ \E point \in RequestPoints : CanvasPress(point)
    \/ \E value \in SliderValues : RadiusChanged(value)
    \/ \E text \in KeyTexts : ApiKeyEdited(text)
    \/ \E value \in SpinValues : MaxResultsChanged(value)
    \/ ToolSearchClicked
    \/ DialogSearchClicked
    \/ \E outcome \in RequestOutcomes : WorkerFinished(outcome)
    \/ \E outcome \in RequestOutcomes : WorkerError(outcome)

SpecRequest == Init /\ [][RequestNext]_vars

\* APIWorker.run ends: get_charging_stations returns or raises (its session.get has
\* a timeout) and the signal's slot runs in the dialog's event loop
WorkerDelivers ==
    \E outcome \in RequestOutcomes : WorkerFinished(outcome) \/ WorkerError(outcome)

\* the searches from their start to the delivery of their outcome
FairNext ==
    \/ RequestMapClick
    \/ \E point \in RequestPoints : CanvasPress(point)
    \/ \E value \in SliderValues : RadiusChanged(value)
    \/ ToolSearchClicked
    \/ DialogSearchClicked
    \/ WorkerDelivers

\* the same with every started worker thread running to its end
SpecFair == Init /\ [][FairNext]_vars /\ WF_vars(WorkerDelivers)

\* the dialog after Select on Map, a click on the map at a point and the tool's Search
\* with the default radius in a WGS84 project, the request failing, as often as
\* leaves one search to start
AfterFailedToolSearch(point) ==
    /\ center = [set |-> TRUE, x |-> point.x, y |-> point.y]
    /\ search_btn = TRUE
    /\ progress_bar = FALSE
    /\ status_label = "Search failed"
    /\ api_worker = MaxSearches - 1
    /\ workers = [w \in 1..(MaxSearches - 1) |-> Delivered("error")]
    /\ last_finished = [w |-> 0, stations |-> <<>>]
    /\ latest_finished = [w |-> 0, stations |-> <<>>]
    /\ transform_outcome = "wgs84"
    /\ current_stations = <<>>
    /\ filtered_stations = <<>>
    /\ results_table = <<>>
    /\ selected_rows = {}
    /\ export_pdf_btn = FALSE
    /\ export = NoExport
    /\ sort_outcome = "none"
    /\ filter_combo = "All"
    /\ filter_value_combo = [items |-> <<>>, text |-> ""]
    /\ sort_combo = "Distance"
    /\ sort_desc_check = FALSE
    /\ api_key_edit = ""
    /\ max_results_spin = SpinDefault
    /\ layer_name_edit = "Charging Stations"
    /\ remove_existing_check = TRUE
    /\ map_tool = [created |-> TRUE, has_center |-> TRUE, center_point |-> point,
                   widget |-> FALSE, slider |-> SliderDefault]
    /\ canvas_tool = "none"
    /\ center_point_layer = [exists |-> TRUE, features |-> <<point>>]
    /\ search_area_layer =
        [exists |-> TRUE, features |-> <<[center |-> point, radius |-> SliderDefault]>>]
    /\ station_layers = <<>>

CatalogInit == ClientIdle /\ AfterFailedToolSearch(Point(1, 2)) /\ pdf_exporter = TRUE

\* the results tab: the dialog's Search, the answers, and the filter and sort widgets
CatalogNext ==
    \/ DialogSearchClicked
    \/ \E outcome \in CatalogOutcomes : WorkerFinished(outcome)
    \/ FilterTypeChanged
    \/ FilterValueChanged
    \/ SortChanged
    \/ DescendingToggled

SpecCatalog == CatalogInit /\ [][CatalogNext]_vars

\* the state the catalog specification starts in is one the life cycle reaches
CatalogInitReached == AfterFailedToolSearch(Point(1, 2)) /\ pdf_exporter = TRUE

\* ------------------------------------------------------------- export
\* itemSelectionChanged -> update_export_button
SetSelection(rows) ==
    /\ selected_rows' = rows
    /\ export_pdf_btn' = (rows # {})
    /\ UNCHANGED <<clientVars, searchVars, historyVars, current_stations,
                   filtered_stations, results_table, sort_outcome, status_label,
                   filter_value_combo, widgetVars, settingVars, exportVars, toolVars,
                   previewVars, station_layers>>

\* select_all_results
SelectAll ==
    /\ selected_rows # 1..Len(results_table)
    /\ SetSelection(1..Len(results_table))

\* clear_result_selection
ClearSelection ==
    /\ selected_rows # {}
    /\ SetSelection({})

\* a click on a row of the table selects that row
RowClicked(row) ==
    /\ row \in 1..Len(results_table)
    /\ selected_rows # {row}
    /\ SetSelection({row})

\* sorted(selected_rows)
RECURSIVE SortedRows(_)
SortedRows(rows) ==
    IF rows = {} THEN <<>>
    ELSE LET first == CHOOSE r \in rows : \A q \in rows : r <= q
         IN <<first>> \o SortedRows(rows \ {first})

\* what the user does in the file dialog and what export_stations then does
ExportChoices ==
    {[file_path |-> "", render |-> "none"],
     [file_path |-> "out.pdf", render |-> "written"],
     [file_path |-> "out.pdf", render |-> "raised"]}

\* export_to_pdf when an exception of export_stations is not caught
ExportToPdfUncaught(exporter, rows, stations, choice) ==
    IF ~exporter
        THEN [outcome |-> "unavailable", render |-> "none", stations |-> <<>>]
    ELSE IF rows = {}
        THEN [outcome |-> "no_selection", render |-> "none", stations |-> <<>>]
    ELSE IF \E r \in rows : r > Len(stations)
        THEN [outcome |-> "IndexError", render |-> "none", stations |-> <<>>]
    ELSE LET selected_stations == [i \in 1..Cardinality(rows) |->
                                        stations[SortedRows(rows)[i]]]
         IN IF choice.file_path = ""
                THEN [outcome |-> "cancelled", render |-> "none", stations |-> <<>>]
            ELSE IF choice.render = "raised"
                THEN [outcome |-> "raised", render |-> "raised",
                      stations |-> selected_stations]
                ELSE [outcome |-> "exported", render |-> "written",
                      stations |-> selected_stations]

\* export_to_pdf: the message it ends with ("IndexError": the exception of
\* filtered_stations[row] leaves the slot), what export_stations did, and the
\* stations handed to it
ExportToPdf(exporter, rows, stations, choice) ==
    IF ~exporter
        THEN [outcome |-> "unavailable", render |-> "none", stations |-> <<>>]
    ELSE IF rows = {}
        THEN [outcome |-> "no_selection", render |-> "none", stations |-> <<>>]
    ELSE IF \E r \in rows : r > Len(stations)
        THEN [outcome |-> "IndexError", render |-> "none", stations |-> <<>>]
    ELSE LET selected_stations == [i \in 1..Cardinality(rows) |->
                                        stations[SortedRows(rows)[i]]]
         IN IF choice.file_path = ""
                THEN [outcome |-> "cancelled", render |-> "none", stations |-> <<>>]
            ELSE IF choice.render = "raised"
                THEN [outcome |-> "failed", render |-> "raised",
                      stations |-> selected_stations]
                ELSE [outcome |-> "exported", render |-> "written",
                      stations |-> selected_stations]

\* export_pdf_btn.clicked -> export_to_pdf
ExportClicked(choice) ==
    /\ export_pdf_btn
    /\ export' = ExportToPdf(pdf_exporter, selected_rows, filtered_stations, choice)
    /\ UNCHANGED <<clientVars, searchVars, historyVars, catalogVars, widgetVars,
                   settingVars, pdf_exporter, toolVars, previewVars, station_layers>>

\* the arrays the server answers with in the export specification
ExportBodies == {<<ItemBeta, ItemAlpha>>, <<ItemBeta, ItemNoDistance, ItemAlpha>>}

ExportOutcomes ==
    {GetChargingStations(resp, body) : resp \in DialogResponses, body \in ExportBodies}

\* the dialog after a failed search, with reportlab installed or not
ExportInit ==
    /\ ClientIdle
    /\ AfterFailedToolSearch(Point(1, 2))
    /\ pdf_exporter \in BOOLEAN

\* the results tab with its selection and export buttons, the sort key left as it is
ExportNext ==
    \/ DialogSearchClicked
    \/ \E outcome \in ExportOutcomes : WorkerFinished(outcome)
    \/ FilterTypeChanged
    \/ FilterValueChanged
    \/ DescendingToggled
    \/ SelectAll
    \/ ClearSelection
    \/ \E row \in 1..Len(results_table) : RowClicked(row)
    \/ \E choice \in ExportChoices : ExportClicked(choice)

SpecExport == ExportInit /\ [][ExportNext]_vars

\* ------------------------------------------------------------- claims: client
\* a raw element that is an object whose AddressInfo carries both coordinates
RawHasCoordinates(item) ==
    /\ item.t = "obj"
    /\ item.AddressInfo.t = "obj"
    /\ item.AddressInfo.Latitude.t \notin {"absent", "null"}
    /\ item.AddressInfo.Longitude.t \notin {"absent", "null"}

StationsHaveCoordinates(r) ==
    r.kind = "returned" =>
        \A k \in 1..Len(r.stations) :
            /\ r.stations[k].latitude.t # "null"
            /\ r.stations[k].longitude.t # "null"
            /\ r.stations[k].src \in 1..Len(raw_data)
            /\ RawHasCoordinates(raw_data[r.stations[k].src])

\* C1: every station that _process_charging_stations or get_charging_stations
\* returns has a non-null latitude and longitude, and no raw element whose
\* AddressInfo.Latitude or AddressInfo.Longitude is absent or null is in the output.
C1_NonNullCoordinates ==
    StationsHaveCoordinates(processed) /\ StationsHaveCoordinates(result)

\* an array with an element lacking a coordinate was normalized, and another
\* element of it was returned
C1_Witness ==
    /\ processed.kind = "returned"
    /\ Len(processed.stations) >= 1
    /\ \E i \in 1..Len(raw_data) :
        raw_data[i].t = "obj" /\ ~RawHasCoordinates(raw_data[i])

\* C2: _process_charging_stations never raises because of one element: an element
\* whose extraction raises (an element that is no JSON object included) is skipped,
\* and every other element with valid coordinates is returned, in input order.
C2_NeverAbortsBatch ==
    processed.kind # "none" =>
        /\ processed.kind = "returned"
        /\ \A i \in 1..Len(raw_data) :
            (~ExtractionRaises(raw_data[i]) /\ RawHasCoordinates(raw_data[i]))
                => \E k \in 1..Len(processed.stations) : processed.stations[k].src = i
        /\ \A k \in 1..Len(processed.stations) :
            ~ExtractionRaises(raw_data[processed.stations[k].src])
        /\ \A k, l \in 1..Len(processed.stations) :
            k < l => processed.stations[k].src < processed.stations[l].src

\* C3: a raw item with both coordinates in which one optional field is missing
\* (key absent or value null) still yields a station, the missing field replaced
\* by its default.
C3_OptionalFieldDefaulted ==
    processed.kind = "returned" =>
        \A i \in 1..Len(raw_data) :
            raw_data[i] \in OptionalVariants =>
                \E k \in 1..Len(processed.stations) :
                    LET st == processed.stations[k]
                        item == raw_data[i]
                    IN
                    /\ st.src = i
                    /\ item.AddressInfo.Title.t \in {"absent", "null"}
                        => st.name = JStr("Unknown Station")
                    /\ item.AddressInfo.ContactTelephone1.t \in {"absent", "null"}
                        => st.phone = JNull
                    /\ item.OperatorInfo.t \in {"absent", "null"}
                        => st.operator = JStr("Unknown")
                    /\ item.StatusType.t \in {"absent", "null"}
                        => st.status = JStr("Unknown")
                    /\ item.UsageType.t \in {"absent", "null"}
                        => st.access_type = JStr("Unknown")
                    /\ item.NumberOfPoints.t \in {"absent", "null"}
                        => st.num_points = JNum(0)
                    /\ item.Connections.t \in {"absent", "null"}
                        => st.connections = <<>>

\* C4: a 403 response ends in the access-forbidden error whatever the body is, with
\* no stations, and no other response ends in that error.
C4_ForbiddenDistinguished ==
    result.kind # "none" =>
        IF response.transport = "ok" /\ response.status = Forbidden
            THEN /\ result.kind = "raised"
                 /\ result.error = "Access forbidden (403)"
                 /\ result.stations = <<>>
                 /\ ~result.normalizer_ran
            ELSE result.error # "Access forbidden (403)"

\* a 403 response whose body is a JSON array with a valid station
C4_Witness ==
    /\ result.kind = "raised"
    /\ response.status = Forbidden
    /\ response.body = "array"
    /\ \E i \in 1..Len(raw_data) : raw_data[i] = FullItem

\* C5: on a transport failure, a timeout, a non-2xx status other than 403 or a
\* malformed JSON body, get_charging_stations raises one error with a message,
\* returns no stations and never runs the normalizer.
C5_FailureRaises ==
    (/\ result.kind # "none"
     /\ \/ response.transport # "ok"
        \/ response.status \notin 200..299 /\ response.status # Forbidden
        \/ response.body = "malformed")
    => /\ result.kind = "raised"
       /\ result.error # ""
       /\ result.stations = <<>>
       /\ ~result.normalizer_ran

\* ------------------------------------------------------------- claims: dialog
Running == {w \in 1..Len(workers) : workers[w].state = "running"}

\* C6: at most one search is outstanding: no APIWorker is started while an earlier
\* one has not delivered finished or error.
C6_OneSearchOutstanding == Cardinality(Running) <= 1

\* C7: once every started search has delivered its outcome, current_stations holds
\* the results of the most recently started successful search; a completion of an
\* earlier search never overwrites the results of a later one.
C7_LatestSearchWins ==
    (Running = {} /\ latest_finished.w > 0)
        => current_stations = latest_finished.stations

Elements(stations) == {stations[i] : i \in 1..Len(stations)}

\* C8: after a search completes successfully, with zero stations too,
\* current_stations, filtered_stations and the table hold only stations of that
\* search.
C8_CatalogReplaced ==
    last_finished.w > 0 =>
        /\ Elements(current_stations) \subseteq Elements(last_finished.stations)
        /\ Elements(filtered_stations) \subseteq Elements(last_finished.stations)
        /\ Elements(results_table) \subseteq Elements(last_finished.stations)

\* ------------------------------------------------------------- claims: results tab
ScalarFilters == {"Access Type", "Operator", "Status"}
SetFilters == {"Connection Type", "Power Level"}

\* the field a filter type reads, as the claims name it
FieldOf(station, filter_type) ==
    CASE filter_type = "Access Type" -> {station.access_type.s}
      [] filter_type = "Operator" -> {station.operator.s}
      [] filter_type = "Status" -> {station.status.s}
      [] filter_type = "Connection Type" -> station.connection_types
      [] filter_type = "Power Level" -> station.power_levels

\* the stations of the catalog that have the value, in catalog order
Having(stations, filter_type, value) ==
    LET Test(station) == value \in FieldOf(station, filter_type)
    IN SelectSeq(stations, Test)

Occurrences(stations, x) == Cardinality({i \in 1..Len(stations) : stations[i] = x})

\* the same stations, each as often, in any order
SameStations(a, b) ==
    /\ Len(a) = Len(b)
    /\ \A i \in 1..Len(a) : Occurrences(a, a[i]) = Occurrences(b, a[i])

\* a filter of these types is set on a catalog
FilterShown(types) ==
    /\ current_stations # <<>>
    /\ filter_combo \in types
    /\ filter_value_combo.text # ""

\* C9 as stated: a scalar filter leaves exactly the stations whose field equals the
\* value, in their original relative order.
C9_OriginalOrder ==
    FilterShown(ScalarFilters) =>
        filtered_stations = Having(current_stations, filter_combo, filter_value_combo.text)

\* C9: a scalar filter leaves exactly the stations of current_stations whose field
\* equals the value, none missing and none extra; apply_filters sorts them, so their
\* order is the one of the sort and not the original one.
C9_ScalarFilterExact ==
    FilterShown(ScalarFilters) =>
        SameStations(filtered_stations,
                     Having(current_stations, filter_combo, filter_value_combo.text))

\* an operator, access type or status filter that keeps a station and drops one
C9_Witness ==
    /\ FilterShown(ScalarFilters)
    /\ filtered_stations # <<>>
    /\ Len(filtered_stations) < Len(current_stations)

\* C10: a Connection Type or Power Level filter selects exactly the stations whose
\* connection_types or power_levels contain the value; filter type "All" or an
\* empty value selects every station of current_stations.
C10_SetFilterAndAll ==
    /\ FilterShown(SetFilters) =>
        SameStations(filtered_stations,
                     Having(current_stations, filter_combo, filter_value_combo.text))
    /\ (filter_combo = "All" \/ filter_value_combo.text = "")
        => SameStations(filtered_stations, current_stations)

\* a connection type filter that keeps a station with two connection types and
\* drops a station
C10_Witness ==
    /\ FilterShown({"Connection Type"})
    /\ Len(filtered_stations) < Len(current_stations)
    /\ \E i \in 1..Len(filtered_stations) :
        Cardinality(filtered_stations[i].connection_types) >= 2

\* ------------------------------------------------------------- claims: sorting
\* the latest apply_filters on this catalog ran list.sort with this key and direction
SortRan(sort_by, reverse) ==
    /\ sort_outcome # "none"
    /\ sort_combo = sort_by
    /\ sort_desc_check = reverse

\* no station with a distance behind one without, and the distances non-decreasing
NullsLastAscending(stations) ==
    \A i, j \in 1..Len(stations) :
        i < j =>
            \/ stations[j].distance.t = "null"
            \/ /\ stations[i].distance.t = "num"
               /\ stations[j].distance.t = "num"
               /\ stations[i].distance.n <= stations[j].distance.n

\* C11: sorting by Distance ascending completes without error for every catalog,
\* catalogs with stations whose distance is null included, and yields the stations
\* in non-decreasing distance with every null-distance station behind the others.
C11_DistanceNullsLast ==
    SortRan("Distance", FALSE) =>
        /\ sort_outcome = "completed"
        /\ NullsLastAscending(filtered_stations)

\* where a station stands in a list
Pos(stations, x) == CHOOSE i \in 1..Len(stations) : stations[i] = x

\* stations with equal keys stand in the order they have in current_stations
TiesKeepOrder(stations, sort_by) ==
    \A i, j \in 1..Len(stations) :
        (i < j /\ SortKey(stations[i], sort_by) = SortKey(stations[j], sort_by))
            => Pos(current_stations, stations[i]) < Pos(current_stations, stations[j])

\* C12: the sort is stable for every sort key, ascending and descending: two
\* stations with equal sort keys stand in the sorted list in the same relative
\* order as in current_stations.
C12_StableSort ==
    sort_outcome = "completed" =>
        /\ TiesKeepOrder(filtered_stations, sort_combo)
        /\ TiesKeepOrder(results_table, sort_combo)

\* a descending sort of a list in which two different stations have the same key
C12_Witness ==
    /\ sort_outcome = "completed"
    /\ sort_desc_check
    /\ \E i, j \in 1..Len(filtered_stations) :
        /\ i < j
        /\ SortKey(filtered_stations[i], sort_combo)
            = SortKey(filtered_stations[j], sort_combo)
        /\ [filtered_stations[i] EXCEPT !.src = 0] # [filtered_stations[j] EXCEPT !.src = 0]

StringSortKeys == {"Name", "Operator", "Status"}

\* the field a string sort key reads, as the station has it
SortField(station, sort_by) ==
    CASE sort_by = "Name" -> station.name.s
      [] sort_by = "Operator" -> station.operator.s
      [] sort_by = "Status" -> station.status.s

\* the list follows the lower-cased fields, and stations whose fields differ at most
\* in letter case stand as in current_stations
CaseInsensitiveOrder(stations, sort_by, reverse) ==
    \A i, j \in 1..Len(stations) :
        i < j =>
            LET a == StrRank(Lower(SortField(stations[i], sort_by)))
                b == StrRank(Lower(SortField(stations[j], sort_by)))
            IN /\ IF reverse THEN a >= b ELSE a <= b
               /\ a = b => Pos(current_stations, stations[i])
                            < Pos(current_stations, stations[j])

\* C13: a sort by Name, Operator or Status compares the keys case-insensitively:
\* stations whose keys differ only in letter case are a tie, and the order of the
\* others follows the lower-cased keys.
C13_CaseInsensitive ==
    (sort_outcome = "completed" /\ sort_combo \in StringSortKeys) =>
        CaseInsensitiveOrder(filtered_stations, sort_combo, sort_desc_check)

\* a completed ascending sort in which a station stands in front of one whose key
\* differs only in letter case and comes first in code point order
C13_Witness ==
    /\ sort_outcome = "completed"
    /\ sort_combo \in StringSortKeys
    /\ ~sort_desc_check
    /\ \E i, j \in 1..Len(filtered_stations) :
        /\ i < j
        /\ Lower(SortField(filtered_stations[i], sort_combo))
            = Lower(SortField(filtered_stations[j], sort_combo))
        /\ StrRank(SortField(filtered_stations[i], sort_combo))
            > StrRank(SortField(filtered_stations[j], sort_combo))

\* ------------------------------------------------------------- claims: connections
\* the deduplicated type and level fields of a station's connections records
TypesOfConnections(station) ==
    {station.connections[i].type.s : i \in 1..Len(station.connections)}
LevelsOfConnections(station) ==
    {station.connections[i].level.s : i \in 1..Len(station.connections)}

\* C14: for every normalized station, connection_types is the deduplicated set of the
\* type fields of its connections records and power_levels the one of their level
\* fields, for the empty list and for connections without a ConnectionType too.
C14_TypesAreProjection ==
    processed.kind = "returned" =>
        \A k \in 1..Len(processed.stations) :
            /\ processed.stations[k].connection_types
                = TypesOfConnections(processed.stations[k])
            /\ processed.stations[k].power_levels
                = LevelsOfConnections(processed.stations[k])

\* a raw item with coordinates and a title whose connections each carry a
\* ConnectionType title and no Level
TypedWithoutLevel(item) ==
    /\ RawHasCoordinates(item)
    /\ item.AddressInfo.Title.t = "str"
    /\ item.Connections.t = "list"
    /\ item.Connections.items # <<>>
    /\ \A i \in 1..Len(item.Connections.items) :
        LET conn == item.Connections.items[i]
        IN /\ conn.t = "obj"
           /\ conn.ConnectionType.t = "obj"
           /\ conn.ConnectionType.Title.t = "str"
           /\ conn.ConnectionType.Title.s # ""
           /\ conn.Level.t \in {"absent", "null"}

\* C15: a raw item with valid coordinates whose connections carry a ConnectionType
\* title but no Level normalizes to a station whose name is AddressInfo.Title, whose
\* connection_types is the set of those titles and whose power_levels is empty.
C15_TypedWithoutLevel ==
    processed.kind = "returned" =>
        \A i \in 1..Len(raw_data) :
            TypedWithoutLevel(raw_data[i]) =>
                \E k \in 1..Len(processed.stations) :
                    /\ processed.stations[k].src = i
                    /\ processed.stations[k].name = raw_data[i].AddressInfo.Title
                    /\ processed.stations[k].connection_types
                        = {raw_data[i].Connections.items[c].ConnectionType.Title.s :
                            c \in 1..Len(raw_data[i].Connections.items)}
                    /\ processed.stations[k].power_levels = {}

\* an item with two such connections of different types was normalized
C15_Witness ==
    /\ processed.kind = "returned"
    /\ \E i \in 1..Len(raw_data) :
        /\ TypedWithoutLevel(raw_data[i])
        /\ Len(raw_data[i].Connections.items) = 2
        /\ \E k \in 1..Len(processed.stations) :
            /\ processed.stations[k].src = i
            /\ Cardinality(processed.stations[k].connection_types) = 2

\* ------------------------------------------------------------- claims: frame
\* C16: filtering and sorting never modify the catalog: after any filter-type,
\* filter-value, sort-key and descending changes current_stations is the list the
\* search delivered, same stations, same order, same fields, and filtered_stations
\* and the table are made of station records of current_stations, none twice.
C16_CatalogUntouched ==
    (last_finished.w > 0 /\ last_finished.stations # <<>>) =>
        /\ current_stations = last_finished.stations
        /\ \A i \in 1..Len(filtered_stations) :
            /\ filtered_stations[i] \in Elements(current_stations)
            /\ Occurrences(filtered_stations, filtered_stations[i]) = 1
        /\ Elements(results_table) \subseteq Elements(current_stations)

\* a completed sort has put the whole catalog in another order than the search did
C16_Witness ==
    /\ last_finished.stations # <<>>
    /\ sort_outcome = "completed"
    /\ Len(filtered_stations) = Len(current_stations)
    /\ filtered_stations # current_stations

\* ------------------------------------------------------------- claims: request
\* the request failed: transport error, timeout, a status outside 2xx, bad JSON
RequestFailed(resp) ==
    \/ resp.transport # "ok"
    \/ resp.status \notin 200..299
    \/ resp.body = "malformed"

\* C17: each search issues exactly one HTTP GET: when the request fails (transport
\* error, timeout, 403 or another non-2xx status, bad JSON) the failure is surfaced
\* as an error and no second request is sent.
C17_OneGetFailureSurfaced ==
    result.kind # "none" =>
        /\ get_calls = 1
        /\ RequestFailed(response) => result.kind = "raised"

\* a search has been started in this step
SearchStarted == Len(workers') = Len(workers) + 1

\* C18: the X-API-Key header is attached to the request if and only if an API key
\* is present: an empty or whitespace-only key in the dialog gives a request with
\* no X-API-Key header, and a non-empty key is sent stripped and unchanged.
C18_KeyHeader ==
    [][SearchStarted =>
        LET header == XApiKeyHeader(workers'[Len(workers')].api_key)
        IN /\ api_key_edit \in {"", " "} => header = "absent"
           /\ api_key_edit \in {"key", " key "} => header = "key"]_vars

\* a search is running that was started with blanks around the key in the dialog
C18_Witness ==
    /\ api_key_edit = " key "
    /\ \E w \in Running : XApiKeyHeader(workers[w].api_key) = "key"

\* ------------------------------------------------------------- claims: num_points
\* C19: every normalized station has a numeric num_points, 0 when the raw item has
\* no NumberOfPoints value (key absent or value null), so that a sort by Number of
\* Points never meets a key it cannot compare.
C19_NumericNumPoints ==
    processed.kind = "returned" =>
        \A k \in 1..Len(processed.stations) :
            /\ processed.stations[k].num_points.t = "num"
            /\ raw_data[processed.stations[k].src].NumberOfPoints.t \in {"absent", "null"}
                => processed.stations[k].num_points = JNum(0)

\* ------------------------------------------------------------- claims: export
\* C20: a failure while the report is rendered is caught by export_to_pdf and
\* reported as an export failure, it does not leave the dialog's slot; and a failed
\* or cancelled export leaves current_stations, filtered_stations and the selection
\* of the table as they were.
C20_ExportFailureContained ==
    [][export' # export =>
        /\ export'.render = "raised" => export'.outcome = "failed"
        /\ export'.outcome \in {"failed", "cancelled"} =>
            UNCHANGED <<current_stations, filtered_stations, results_table,
                        selected_rows>>]_vars

\* export_stations raised on a selection of two filtered and sorted stations
C20_Witness ==
    /\ export.outcome = "failed"
    /\ export.render = "raised"
    /\ Len(export.stations) = 2
    /\ filter_combo # "All"
    /\ sort_outcome = "completed"

\* C21: every search that starts sends a request whose maxresults is the
\* value the Max Results control holds at that moment
C21_ResultCapConfigured ==
    [][SearchStarted => workers'[Len(workers')].max_results = max_results_spin]_vars

\* C22: every search that starts sends a request whose radius is greater than 0
C22_PositiveRadius ==
    [][SearchStarted => workers'[Len(workers')].radius > 0]_vars

\* the map tool's Search has been handled in this step: the control widget is
\* hidden and no worker has delivered
ToolSearchHandled ==
    /\ map_tool.widget
    /\ ~map_tool'.widget
    /\ \A w \in 1..Len(workers) : workers'[w] = workers[w]

\* C23: handling the map tool's Search always starts a search; its request carries
\* the transformed x as longitude and y as latitude when the transform succeeds,
\* and the clicked point's own x and y when the transform raises (or the project
\* is in WGS84)
C23_TransformFailureFallsBack ==
    [][ToolSearchHandled =>
        /\ SearchStarted
        /\ LET request == workers'[Len(workers')]
               point == map_tool.center_point
               api == IF transform_outcome' = "transforms" THEN ToWgs84(point) ELSE point
           IN /\ request.state = "running"
              /\ request.longitude = api.x
              /\ request.latitude = api.y]_vars

\* a search is running that was started although the transform raised, with the
\* clicked point's own coordinates
C23_Witness ==
    /\ transform_outcome = "raises"
    /\ ~map_tool.widget
    /\ Len(workers) > 0
    /\ workers[Len(workers)].state = "running"
    /\ workers[Len(workers)].longitude = map_tool.center_point.x
    /\ workers[Len(workers)].latitude = map_tool.center_point.y
    /\ workers[Len(workers)].radius = map_tool.slider

\* the worker has emitted finished or error
HasDelivered(w) == w <= Len(workers) /\ workers[w].state \in {"finished", "error"}

\* the worker has been started and has emitted nothing yet
IsRunning(w) == w <= Len(workers) /\ workers[w].state = "running"

\* a worker that has delivered its outcome delivers nothing more
DeliversAtMostOnce ==
    [][\A w \in 1..Len(workers) : HasDelivered(w) => workers'[w] = workers[w]]_vars

\* the step in which a worker delivers its one outcome, finished or error, leaves
\* the search button enabled and the progress bar hidden
DeliveryEndsSearching ==
    [][\A w \in 1..Len(workers) :
        workers'[w] # workers[w] =>
            /\ IsRunning(w)
            /\ workers'[w].state \in {"finished", "error"}
            /\ search_btn'
            /\ ~progress_bar']_vars

\* C24: every started worker delivers exactly one outcome, finished or error: it
\* eventually delivers one and never a second; on that outcome the search button
\* is enabled and the progress bar hidden, so the searching state is always left
C24_WorkerDeliversOnce ==
    /\ DeliversAtMostOnce
    /\ DeliveryEndsSearching
    /\ \A w \in 1..MaxSearches : IsRunning(w) ~> HasDelivered(w)
    /\ progress_bar ~> (search_btn /\ ~progress_bar)

\* a worker has delivered an error, and the dialog is out of the searching state
C24_Witness ==
    /\ \E w \in 1..Len(workers) : workers[w].state = "error"
    /\ \E w \in 1..Len(workers) : workers[w].state = "finished"
    /\ \A w \in 1..Len(workers) : HasDelivered(w)
    /\ search_btn
    /\ ~progress_bar

\* a worker delivers error in this step, so handle_api_error runs
SearchFails ==
    \E w \in 1..Len(workers) : IsRunning(w) /\ workers'[w].state = "error"

\* C25: a failed search changes nothing but the status display: neither its start
\* nor handle_api_error changes current_stations or filtered_stations or the
\* station layers, and handle_api_error leaves the table, the preview layers and
\* the map tools alone as well (search_completed is not emitted)
C25_FailedSearchFrame ==
    [][/\ SearchStarted =>
            UNCHANGED <<current_stations, filtered_stations, results_table,
                        station_layers>>
       /\ SearchFails =>
            /\ status_label' = "Search failed"
            /\ UNCHANGED <<current_stations, filtered_stations, results_table,
                           station_layers, previewVars, toolVars, center>>]_vars

\* a search has failed after an earlier one had filled the catalog and added a
\* layer, which are still there
C25_Witness ==
    /\ Len(workers) > 1
    /\ workers[Len(workers)].state = "error"
    /\ status_label = "Search failed"
    /\ current_stations # <<>>
    /\ filtered_stations # <<>>
    /\ station_layers # <<>>

\* C26: no search is ever started without a center point: the search button is
\* enabled only if the dialog's center point has been set, a started search
\* carries the center point, and as long as no center point is set nothing
\* starts a worker or changes the button, the progress bar, api_worker or the
\* catalog
C26_NoSearchWithoutCenter ==
    /\ [](search_btn => center.set)
    /\ [][SearchStarted =>
            /\ center'.set
            /\ workers'[Len(workers')].latitude = center'.y
            /\ workers'[Len(workers')].longitude = center'.x]_vars
    /\ [][~center'.set =>
            UNCHANGED <<workers, search_btn, progress_bar, api_worker,
                        current_stations, filtered_stations, results_table>>]_vars

\* the search button is enabled again after a search, with the center point set;
\* before that the map was clicked while the dialog had no center point
C26_Witness ==
    /\ search_btn
    /\ center.set
    /\ Len(workers) = 1
    /\ ~IsRunning(1)
    /\ map_tool.has_center

NamedLayers == {i \in 1..Len(station_layers) : station_layers[i].name = LayerName}

\* C28: with 'Remove existing layers' checked and the layer name unchanged, once a
\* search has completed with stations the project holds exactly one layer of
\* that name, and its features are, one per station, the stations of the search
\* that completed most recently
C28_OneLayerOfLatestSearch ==
    (remove_existing_check /\ last_finished.stations # <<>>) =>
        /\ Cardinality(NamedLayers) = 1
        /\ \A i \in NamedLayers : station_layers[i].features = last_finished.stations

\* two searches have completed with different stations, and one layer is there
C28_Witness ==
    /\ remove_existing_check
    /\ Len(workers) > 1
    /\ \A w \in 1..Len(workers) : workers[w].state = "finished"
    /\ last_finished.stations # <<>>
    /\ latest_finished.stations # <<>>
    /\ latest_finished.stations # last_finished.stations
    /\ Len(station_layers) = 1
    /\ station_layers[1].features = last_finished.stations

\* C29: the 'Search Center Point' layer and the 'Search Area' layer hold at most
\* one feature each; once the map has been clicked they hold the latest clicked
\* point and the circle for that point and the latest radius
C29_PreviewLayersHoldOneFeature ==
    /\ Len(center_point_layer.features) <= 1
    /\ Len(search_area_layer.features) <= 1
    /\ map_tool.has_center =>
        /\ center_point_layer.features = <<map_tool.center_point>>
        /\ search_area_layer.features =
            <<[center |-> map_tool.center_point, radius |-> map_tool.slider]>>

\* the map has been clicked, the slider moved and the tool's Search pressed, and
\* the map clicked again: each layer holds the one latest feature
C29_Witness ==
    /\ transform_outcome # "none"
    /\ Len(workers) > 0
    /\ map_tool.widget
    /\ map_tool.slider = SliderMin
    /\ center_point_layer.features = <<map_tool.center_point>>
    /\ Len(search_area_layer.features) = 1
    /\ search_area_layer.features[1].radius = SliderMin

\* the distinct values of the field of a filter type over a catalog
DistinctValues(stations, filter_type) ==
    UNION {FieldOf(stations[i], filter_type) : i \in 1..Len(stations)}

\* C30: with a filter type chosen on a non-empty catalog, the values offered are
\* exactly the distinct values of that field over current_stations, each once;
\* applying any of them leaves a non-empty filtered_stations, as the one shown has
C30_OfferedValuesMatch ==
    (current_stations # <<>> /\ filter_combo # "All") =>
        /\ Elements(filter_value_combo.items) =
                DistinctValues(current_stations, filter_combo)
        /\ Len(filter_value_combo.items) = Cardinality(Elements(filter_value_combo.items))
        /\ \A i \in 1..Len(filter_value_combo.items) :
                FilterStep(current_stations, filter_combo, filter_value_combo.items[i])
                    # <<>>
        /\ filter_value_combo.text # "" =>
                /\ filter_value_combo.text \in Elements(filter_value_combo.items)
                /\ filtered_stations # <<>>

\* two connection types are offered for a catalog of two stations, and the second
\* one is applied and keeps one station of the two
C30_Witness ==
    /\ Len(current_stations) = 2
    /\ filter_combo = "Connection Type"
    /\ Len(filter_value_combo.items) = 2
    /\ filter_value_combo.text = filter_value_combo.items[2]
    /\ Len(filtered_stations) = 1

=============================================================================
